---- MODULE Spec2Model ----
(***************************************************************************)
(* The App component of src/App.tsx (QuickJot AI): six React state cells,  *)
(* the mount effect that reads process.env.API_KEY, the handlers           *)
(* handleSummarize, handleClear, copyToClipboard and showCopyNotification, *)
(* the pending summarizeText promises, the pending clipboard writes and    *)
(* the pending setTimeout callbacks.                                       *)
(*                                                                         *)
(* JavaScript strings are sequences of one-character strings; a value of   *)
(* type string | null is Null or Some(s).                                  *)
(*                                                                         *)
(* Two specifications:                                                     *)
(*   Spec          the rendered view: a handler runs only through its      *)
(*                 control, and a control whose disabled prop is true (or  *)
(*                 that is not rendered) delivers no event;                *)
(*   SpecHandlers  the handlers themselves, run from any state, whatever   *)
(*                 the controls' disabled props say.                       *)
(***************************************************************************)
EXTENDS Naturals, Sequences, FiniteSets, Bags

VARIABLES
    inputText,          \* useState<string>('')
    summary,            \* useState<string>('')
    isLoading,          \* useState<boolean>(false)
    error,              \* useState<string | null>(null)
    apiKeyMissing,      \* useState<boolean>(false)
    copyNotification,   \* useState<string | null>(null)
    apiKey,             \* process.env.API_KEY is truthy
    mounted,            \* the mount effect has run
    requests,           \* bag of pending summarizeText(...) promises: the text sent, and
                        \*   (history) the summary before the call and whether
                        \*   handleClear has run since
    writes,             \* bag of pending navigator.clipboard.writeText(...) promises
    timers,             \* pending setTimeout callbacks, oldest first: ms left of each
    lastEvent           \* the step just taken (history variable)

vars == <<inputText, summary, isLoading, error, apiKeyMissing, copyNotification,
          apiKey, mounted, requests, writes, timers, lastEvent>>

\* the six useState cells
view == <<inputText, summary, isLoading, error, apiKeyMissing, copyNotification>>

----------------------------------------------------------------------------
\* Bounds of the model

MaxRequests == 2        \* pending summarizeText promises
MaxCopies == 2          \* copy actions whose write or timeout is still pending

----------------------------------------------------------------------------
\* JavaScript values

Null == <<>>
Some(s) == <<s>>

Whitespace == {" "}

\* what the textarea can hold
Texts == {<<>>, <<" ">>, <<"a">>}

\* what summarizeText can resolve to
Responses == {<<>>, <<"s">>}

\* e.message of what summarizeText can reject with: undefined, '' or a reason
Undefined == <<>>
FailureMessages == {Undefined, Some(""), Some("Quota exceeded.")}

CopyTypes == {"Note", "Summary"}

RECURSIVE trimStart(_)
trimStart(s) ==
    IF s # <<>> /\ Head(s) \in Whitespace THEN trimStart(Tail(s)) ELSE s

RECURSIVE trimEnd(_)
trimEnd(s) ==
    IF s # <<>> /\ s[Len(s)] \in Whitespace
    THEN trimEnd(SubSeq(s, 1, Len(s) - 1))
    ELSE s

\* String.prototype.trim
trim(s) == trimEnd(trimStart(s))

\* !s of a string: the empty string is falsy
Not(s) == s = <<>>

\* a ?? b in place of a || b: only undefined is replaced
OrNullish(a, b) == IF a = Undefined THEN b ELSE a

\* a || b of an optional string a: undefined and '' are falsy
Or(a, b) == IF a = Undefined \/ a = Some("") THEN b ELSE a

ConfigError == Some("Gemini API key is missing. Please set the API_KEY environment variable.")
ValidationError == Some("Please enter some text to summarize.")
FallbackError == Some("Failed to summarize text. Check console for details.")

CopiedMessage(type) == Some(<<type, " copied to clipboard!">>)
CopyFailedMessage(type) == Some(<<"Failed to copy ", type, ".">>)

CopyNotificationDelay == 2000

\* time advances in steps of TickMs milliseconds
TickMs == CopyNotificationDelay \div 2
Elapse(ms) == IF ms >= TickMs THEN ms - TickMs ELSE 0

Event(op, arg) == [op |-> op, arg |-> arg]
Pending(bag) == BagCardinality(bag)
Unit(x) == SetToBag({x})

----------------------------------------------------------------------------
Init ==
    /\ inputText = <<>>
    /\ summary = <<>>
    /\ isLoading = FALSE
    /\ error = Null
    /\ apiKeyMissing = FALSE
    /\ copyNotification = Null
    /\ apiKey \in BOOLEAN
    /\ mounted = FALSE
    /\ requests = EmptyBag
    /\ writes = EmptyBag
    /\ timers = <<>>
    /\ lastEvent = Event("render", Null)

\* useEffect(() => { if (!process.env.API_KEY) {...} }, [])
Mount ==
    /\ ~mounted
    /\ mounted' = TRUE
    /\ IF ~apiKey
       THEN apiKeyMissing' = TRUE /\ error' = ConfigError
       ELSE UNCHANGED <<apiKeyMissing, error>>
    /\ lastEvent' = Event("mount", Null)
    /\ UNCHANGED <<inputText, summary, isLoading, copyNotification, apiKey,
                   requests, writes, timers>>

\* an onChange that also clears the error
setInputTextClearError(text) ==
    /\ inputText' = text
    /\ error' = Null
    /\ lastEvent' = Event("setInputText", text)
    /\ UNCHANGED <<summary, isLoading, apiKeyMissing, copyNotification,
                   apiKey, mounted, requests, writes, timers>>

\* onChange={(e) => setInputText(e.target.value)}
setInputText(text) ==
    /\ inputText' = text
    /\ lastEvent' = Event("setInputText", text)
    /\ UNCHANGED <<summary, isLoading, error, apiKeyMissing, copyNotification,
                   apiKey, mounted, requests, writes, timers>>

\* handleSummarize without "if (apiKeyMissing) return"
handleSummarizeNoKeyCheck ==
    /\ lastEvent' = Event("handleSummarize", Null)
    /\ IF Not(trim(inputText))
       THEN /\ error' = ValidationError
            /\ UNCHANGED <<inputText, summary, isLoading, apiKeyMissing,
                           copyNotification, requests>>
       ELSE /\ Pending(requests) < MaxRequests
            /\ isLoading' = TRUE
            /\ error' = Null
            /\ summary' = <<>>
            /\ requests' = requests (+) Unit([text |-> inputText,
                                               summaryBefore |-> summary,
                                               cleared |-> FALSE])
            /\ UNCHANGED <<inputText, apiKeyMissing, copyNotification>>
    /\ UNCHANGED <<apiKey, mounted, writes, timers>>

\* handleSummarize testing !inputText in place of !inputText.trim()
handleSummarizeNoTrim ==
    /\ lastEvent' = Event("handleSummarize", Null)
    /\ IF apiKeyMissing
       THEN UNCHANGED <<view, requests>>
       ELSE IF Not(inputText)
       THEN /\ error' = ValidationError
            /\ UNCHANGED <<inputText, summary, isLoading, apiKeyMissing,
                           copyNotification, requests>>
       ELSE /\ Pending(requests) < MaxRequests
            /\ isLoading' = TRUE
            /\ error' = Null
            /\ summary' = <<>>
            /\ requests' = requests (+) Unit([text |-> inputText,
                                               summaryBefore |-> summary,
                                               cleared |-> FALSE])
            /\ UNCHANGED <<inputText, apiKeyMissing, copyNotification>>
    /\ UNCHANGED <<apiKey, mounted, writes, timers>>

\* handleSummarize without setSummary('')
handleSummarizeKeepSummary ==
    /\ lastEvent' = Event("handleSummarize", Null)
    /\ IF apiKeyMissing
       THEN UNCHANGED <<view, requests>>
       ELSE IF Not(trim(inputText))
       THEN /\ error' = ValidationError
            /\ UNCHANGED <<inputText, summary, isLoading, apiKeyMissing,
                           copyNotification, requests>>
       ELSE /\ Pending(requests) < MaxRequests
            /\ isLoading' = TRUE
            /\ error' = Null
            /\ requests' = requests (+) Unit([text |-> inputText,
                                               summaryBefore |-> summary,
                                               cleared |-> FALSE])
            /\ UNCHANGED <<inputText, summary, apiKeyMissing, copyNotification>>
    /\ UNCHANGED <<apiKey, mounted, writes, timers>>

\* handleSummarize without setError(null)
handleSummarizeKeepError ==
    /\ lastEvent' = Event("handleSummarize", Null)
    /\ IF apiKeyMissing
       THEN UNCHANGED <<view, requests>>
       ELSE IF Not(trim(inputText))
       THEN /\ error' = ValidationError
            /\ UNCHANGED <<inputText, summary, isLoading, apiKeyMissing,
                           copyNotification, requests>>
       ELSE /\ Pending(requests) < MaxRequests
            /\ isLoading' = TRUE
            /\ summary' = <<>>
            /\ requests' = requests (+) Unit([text |-> inputText,
                                               summaryBefore |-> summary,
                                               cleared |-> FALSE])
            /\ UNCHANGED <<inputText, error, apiKeyMissing, copyNotification>>
    /\ UNCHANGED <<apiKey, mounted, writes, timers>>

\* handleSummarize without setIsLoading(true)
handleSummarizeNoLoading ==
    /\ lastEvent' = Event("handleSummarize", Null)
    /\ IF apiKeyMissing
       THEN UNCHANGED <<view, requests>>
       ELSE IF Not(trim(inputText))
       THEN /\ error' = ValidationError
            /\ UNCHANGED <<inputText, summary, isLoading, apiKeyMissing,
                           copyNotification, requests>>
       ELSE /\ Pending(requests) < MaxRequests
            /\ error' = Null
            /\ summary' = <<>>
            /\ requests' = requests (+) Unit([text |-> inputText,
                                               summaryBefore |-> summary,
                                               cleared |-> FALSE])
            /\ UNCHANGED <<inputText, isLoading, apiKeyMissing, copyNotification>>
    /\ UNCHANGED <<apiKey, mounted, writes, timers>>

\* handleSummarize, up to the await
handleSummarize ==
    /\ lastEvent' = Event("handleSummarize", Null)
    /\ IF apiKeyMissing
       THEN UNCHANGED <<view, requests>>
       ELSE IF Not(trim(inputText))
       THEN /\ error' = ValidationError
            /\ UNCHANGED <<inputText, summary, isLoading, apiKeyMissing,
                           copyNotification, requests>>
       ELSE /\ Pending(requests) < MaxRequests
            /\ isLoading' = TRUE
            /\ error' = Null
            /\ summary' = <<>>
            /\ requests' = requests (+) Unit([text |-> inputText,
                                               summaryBefore |-> summary,
                                               cleared |-> FALSE])
            /\ UNCHANGED <<inputText, apiKeyMissing, copyNotification>>
    /\ UNCHANGED <<apiKey, mounted, writes, timers>>

\* the continuation dropping the result of a request the note was cleared under
SummarizeResolvedDiscardStale(req, result) ==
    /\ BagIn(req, requests)
    /\ requests' = requests (-) Unit(req)
    /\ summary' = IF req.cleared THEN summary ELSE result
    /\ isLoading' = FALSE
    /\ lastEvent' = Event("resolved", [request |-> req, result |-> result])
    /\ UNCHANGED <<inputText, error, apiKeyMissing, copyNotification, apiKey,
                   mounted, writes, timers>>

\* handleSummarize after the await: summarizeText resolved with result
SummarizeResolved(req, result) ==
    /\ BagIn(req, requests)
    /\ requests' = requests (-) Unit(req)
    /\ summary' = result
    /\ isLoading' = FALSE
    /\ lastEvent' = Event("resolved", [request |-> req, result |-> result])
    /\ UNCHANGED <<inputText, error, apiKeyMissing, copyNotification, apiKey,
                   mounted, writes, timers>>

\* the continuation without the finally on the failure path
SummarizeRejectedKeepLoading(req, message) ==
    /\ BagIn(req, requests)
    /\ requests' = requests (-) Unit(req)
    /\ error' = Or(message, FallbackError)
    /\ lastEvent' = Event("rejected", [request |-> req, message |-> message])
    /\ UNCHANGED <<inputText, summary, isLoading, apiKeyMissing, copyNotification,
                   apiKey, mounted, writes, timers>>

\* handleSummarize after the await: summarizeText rejected with e
SummarizeRejected(req, message) ==
    /\ BagIn(req, requests)
    /\ requests' = requests (-) Unit(req)
    /\ error' = Or(message, FallbackError)
    /\ isLoading' = FALSE
    /\ lastEvent' = Event("rejected", [request |-> req, message |-> message])
    /\ UNCHANGED <<inputText, summary, apiKeyMissing, copyNotification, apiKey,
                   mounted, writes, timers>>

\* the pending promises are left as they are: only their history field changes
Cleared(bag) ==
    LET seen(req) == [req EXCEPT !.cleared = TRUE]
    IN  [r \in {seen(req) : req \in BagToSet(bag)} |->
            (IF r \in DOMAIN bag THEN bag[r] ELSE 0)
            + (IF [r EXCEPT !.cleared = FALSE] \in DOMAIN bag
               THEN bag[[r EXCEPT !.cleared = FALSE]] ELSE 0)]

\* handleClear without setError(null)
handleClearKeepError ==
    /\ inputText' = <<>>
    /\ summary' = <<>>
    /\ copyNotification' = Null
    /\ requests' = Cleared(requests)
    /\ lastEvent' = Event("handleClear", Null)
    /\ UNCHANGED <<isLoading, error, apiKeyMissing, apiKey, mounted, writes, timers>>

\* handleClear also resetting apiKeyMissing
handleClearResetFlag ==
    /\ inputText' = <<>>
    /\ summary' = <<>>
    /\ error' = Null
    /\ copyNotification' = Null
    /\ apiKeyMissing' = FALSE
    /\ requests' = Cleared(requests)
    /\ lastEvent' = Event("handleClear", Null)
    /\ UNCHANGED <<isLoading, apiKey, mounted, writes, timers>>

handleClear ==
    /\ inputText' = <<>>
    /\ summary' = <<>>
    /\ error' = Null
    /\ copyNotification' = Null
    /\ requests' = Cleared(requests)
    /\ lastEvent' = Event("handleClear", Null)
    /\ UNCHANGED <<isLoading, apiKeyMissing, apiKey, mounted, writes, timers>>

\* copyToClipboard without "if (!text) return"
copyToClipboardNoEmptyCheck(text, type) ==
    /\ lastEvent' = Event("copyToClipboard", [text |-> text, type |-> type])
    /\ Pending(writes) + Len(timers) < MaxCopies
    /\ writes' = writes (+) Unit(type)
    /\ UNCHANGED <<view, apiKey, mounted, requests, timers>>

\* copyToClipboard, up to the await
copyToClipboard(text, type) ==
    /\ lastEvent' = Event("copyToClipboard", [text |-> text, type |-> type])
    /\ IF Not(text)
       THEN UNCHANGED writes
       ELSE /\ Pending(writes) + Len(timers) < MaxCopies
            /\ writes' = writes (+) Unit(type)
    /\ UNCHANGED <<view, apiKey, mounted, requests, timers>>

\* showCopyNotification without the setTimeout
showCopyNotificationNoTimeout(message) ==
    /\ copyNotification' = message
    /\ timers' = timers

showCopyNotification(message) ==
    /\ copyNotification' = message
    /\ timers' = Append(timers, CopyNotificationDelay)

\* copyToClipboard after the await: the write resolved (ok) or rejected
WriteSettled(type, ok) ==
    /\ BagIn(type, writes)
    /\ writes' = writes (-) Unit(type)
    /\ showCopyNotification(IF ok THEN CopiedMessage(type) ELSE CopyFailedMessage(type))
    /\ lastEvent' = Event("settled", [type |-> type, ok |-> ok])
    /\ UNCHANGED <<inputText, summary, isLoading, error, apiKeyMissing, apiKey,
                   mounted, requests>>

\* the callback of the oldest timeout runs once its delay has elapsed
TimerFired ==
    /\ timers # <<>>
    /\ Head(timers) = 0
    /\ timers' = Tail(timers)
    /\ copyNotification' = Null
    /\ lastEvent' = Event("timeout", Null)
    /\ UNCHANGED <<inputText, summary, isLoading, error, apiKeyMissing, apiKey,
                   mounted, requests, writes>>

\* TickMs milliseconds pass
Tick ==
    /\ timers # <<>>
    /\ \E i \in 1..Len(timers) : timers[i] > 0
    /\ timers' = [i \in 1..Len(timers) |-> Elapse(timers[i])]
    /\ lastEvent' = Event("tick", Null)
    /\ UNCHANGED <<view, apiKey, mounted, requests, writes>>

\* the collaborator, the clipboard and the clock
Resolve == \E req \in BagToSet(requests), result \in Responses : SummarizeResolved(req, result)
Reject == \E req \in BagToSet(requests), message \in FailureMessages : SummarizeRejected(req, message)
Settle == \E type \in CopyTypes, ok \in BOOLEAN : WriteSettled(type, ok)

----------------------------------------------------------------------------
\* The rendered view: the controls and their disabled props

\* the textarea without disabled={isLoading}
ChangeInputWhileLoading == \E text \in Texts : setInputText(text)

\* <textarea disabled={isLoading}>
ChangeInput == ~isLoading /\ \E text \in Texts : setInputText(text)

\* the Summarize button with disabled={apiKeyMissing || !inputText.trim()}
SummarizeDisabledNotWhileLoading == apiKeyMissing \/ Not(trim(inputText))

\* <Button onClick={handleSummarize} disabled={isLoading || apiKeyMissing || !inputText.trim()}>
SummarizeDisabled == isLoading \/ apiKeyMissing \/ Not(trim(inputText))
ClickSummarize == ~SummarizeDisabled /\ handleSummarize

\* <Button onClick={handleClear} disabled={isLoading}>
ClickClear == ~isLoading /\ handleClear

\* <Button onClick={() => copyToClipboard(inputText, "Note")} disabled={isLoading || !inputText.trim()}>
CopyNoteDisabled == isLoading \/ Not(trim(inputText))
ClickCopyNote == ~CopyNoteDisabled /\ copyToClipboard(inputText, "Note")

\* {summary && !isLoading && <Button onClick={() => copyToClipboard(summary, "Summary")}>}
CopySummaryRendered == ~Not(summary) /\ ~isLoading
ClickCopySummary == CopySummaryRendered /\ copyToClipboard(summary, "Summary")

Next ==
    \/ Mount
    \/ mounted /\ ChangeInput
    \/ mounted /\ ClickSummarize
    \/ mounted /\ ClickClear
    \/ mounted /\ ClickCopyNote
    \/ mounted /\ ClickCopySummary
    \/ mounted /\ Resolve
    \/ mounted /\ Reject
    \/ mounted /\ Settle
    \/ mounted /\ TimerFired
    \/ mounted /\ Tick

Spec == Init /\ [][Next]_vars

----------------------------------------------------------------------------
\* The handlers, run from any state

CallSetInputText == \E text \in Texts : setInputText(text)
CallCopyNote == copyToClipboard(inputText, "Note")
CallCopySummary == copyToClipboard(summary, "Summary")

NextHandlers ==
    \/ Mount
    \/ mounted /\ CallSetInputText
    \/ mounted /\ handleSummarize
    \/ mounted /\ handleClear
    \/ mounted /\ CallCopyNote
    \/ mounted /\ CallCopySummary
    \/ mounted /\ Resolve
    \/ mounted /\ Reject
    \/ mounted /\ Settle
    \/ mounted /\ TimerFired
    \/ mounted /\ Tick

SpecHandlers == Init /\ [][NextHandlers]_vars

\* The rendered view with a collaborator that answers every call: a pending
\* summarizeText promise is eventually resolved or rejected
SpecResponsive == Spec /\ WF_vars(mounted /\ (Resolve \/ Reject))

----------------------------------------------------------------------------
\* Properties

IsMessage(e) == e # Null /\ e # Some("")
Ran(op) == lastEvent.op = op

\* C1 (Spec): in every reachable state of the view at most one summarizeText call
\* is pending; no second call is issued before the previous one has settled.
C1_AtMostOneRequestInFlight == Pending(requests) <= 1

\* a request issued after an earlier one resolved with a non-empty summary
C1_Witness ==
    /\ Pending(requests) = 1
    /\ \E req \in BagToSet(requests) : req.summaryBefore # <<>>

\* C2 (SpecHandlers): while apiKeyMissing is set, a run of handleSummarize issues no
\* call and changes none of the state cells, and no request is ever pending.
C2_SummarizeIsNoOpWithoutKey ==
    /\ [][(apiKeyMissing /\ lastEvent'.op = "handleSummarize")
            => UNCHANGED <<view, requests, writes, timers>>]_vars
    /\ [](apiKeyMissing => requests = EmptyBag)

\* handleSummarize has run with the flag set, on a non-blank note
C2_Witness == apiKeyMissing /\ Ran("handleSummarize") /\ ~Not(trim(inputText))

\* C3 as stated (Spec): after a failing call the error is a non-empty string, loading
\* is false and the summary is the one from before handleSummarize was invoked.
C3_SummaryAsBeforeTheAction ==
    Ran("rejected") =>
        /\ IsMessage(error)
        /\ ~isLoading
        /\ summary = lastEvent.arg.request.summaryBefore

\* C3 as amended (Spec): after a failing call the error is a non-empty string, loading
\* is false and the summary is the empty string handleSummarize reset it to.
C3_SummaryEmptyAfterFailure ==
    Ran("rejected") =>
        /\ IsMessage(error)
        /\ ~isLoading
        /\ summary = <<>>

\* a call failed that was issued while a summary was shown
C3_Witness ==
    /\ Ran("rejected")
    /\ lastEvent.arg.request.summaryBefore # <<>>
    /\ summary = <<>>

\* C4 (Spec): right after summarizeText resolves with R, summary = R, loading is
\* false and there is no error.
C4_SuccessStoresResponse ==
    Ran("resolved") =>
        /\ summary = lastEvent.arg.result
        /\ ~isLoading
        /\ error = Null

\* a non-empty response to a request for the note "a"
C4_Witness ==
    /\ Ran("resolved")
    /\ lastEvent.arg.request.text = <<"a">>
    /\ lastEvent.arg.result = <<"s">>
    /\ summary = <<"s">>

\* C5 (SpecHandlers): with the flag unset and a blank note, handleSummarize sets the
\* validation error, issues no call and leaves loading and the summary as they were
\* (loading stays false if it was false).
C5_BlankNoteIsRejected ==
    [][(~apiKeyMissing /\ Not(trim(inputText)) /\ lastEvent'.op = "handleSummarize")
        => /\ error' = ValidationError
           /\ requests' = requests
           /\ isLoading' = isLoading
           /\ summary' = summary]_vars

\* handleSummarize has run on a whitespace-only note
C5_Witness ==
    /\ Ran("handleSummarize")
    /\ ~apiKeyMissing
    /\ inputText = <<" ">>
    /\ error = ValidationError
    /\ ~isLoading
    /\ requests = EmptyBag

\* C6 (SpecHandlers): handleClear run while a request is pending aborts nothing, and
\* when a request the note was cleared under settles, its outcome is still stored:
\* the response as the summary, or the failure as the error.
C6_ClearDoesNotCancel ==
    /\ [][lastEvent'.op = "handleClear"
            => Pending(requests') = Pending(requests)]_vars
    /\ []((Ran("resolved") /\ lastEvent.arg.request.cleared)
            => summary = lastEvent.arg.result)
    /\ []((Ran("rejected") /\ lastEvent.arg.request.cleared)
            => IsMessage(error))

\* the note was cleared while the request was pending, and its response is shown
C6_Witness ==
    /\ Ran("resolved")
    /\ lastEvent.arg.request.cleared
    /\ lastEvent.arg.result = <<"s">>
    /\ summary = <<"s">>
    /\ inputText = <<>>

\* C7 (SpecHandlers): from any state handleClear leaves inputText = '', summary = ''
\* and error = null, and leaves apiKeyMissing and isLoading as they were.
C7_ClearResets ==
    [][lastEvent'.op = "handleClear"
        => /\ inputText' = <<>>
           /\ summary' = <<>>
           /\ error' = Null
           /\ apiKeyMissing' = apiKeyMissing
           /\ isLoading' = isLoading]_vars

\* handleClear has run while loading, and loading is still true
C7_Witness ==
    /\ Ran("handleClear")
    /\ isLoading
    /\ inputText = <<>> /\ summary = <<>> /\ error = Null

\* C8 (SpecHandlers): without API_KEY the mount effect sets apiKeyMissing and the
\* configuration error, and apiKeyMissing is set in every state from then on.
C8_FlagIsPermanent ==
    /\ [][(lastEvent'.op = "mount" /\ ~apiKey)
            => (apiKeyMissing' /\ error' = ConfigError)]_vars
    /\ [][apiKeyMissing => apiKeyMissing']_vars
    /\ []((mounted /\ ~apiKey) => apiKeyMissing)

\* the flag is still set after handleClear has removed the configuration error
C8_Witness == apiKeyMissing /\ Ran("handleClear") /\ error = Null

\* C9 (SpecHandlers): a copy of a non-empty text starts a clipboard write; when the
\* write settles the notification is the success or the failure message of its type
\* and a timeout of CopyNotificationDelay is started; when a timeout's delay has
\* elapsed and its callback has run, the notification is null.
C9_CopyNotifiesThenExpires ==
    /\ (Ran("copyToClipboard") /\ ~Not(lastEvent.arg.text))
            => BagIn(lastEvent.arg.type, writes)
    /\ Ran("settled")
            => /\ copyNotification =
                    (IF lastEvent.arg.ok
                     THEN CopiedMessage(lastEvent.arg.type)
                     ELSE CopyFailedMessage(lastEvent.arg.type))
               /\ timers # <<>>
               /\ timers[Len(timers)] = CopyNotificationDelay
    /\ Ran("timeout") => copyNotification = Null
    /\ \A type \in CopyTypes : CopiedMessage(type) # CopyFailedMessage(type)

\* the timeout of a copy has run and the notification is gone
C9_Witness ==
    /\ Ran("timeout")
    /\ copyNotification = Null
    /\ timers = <<>>
    /\ writes = EmptyBag

\* C10 (SpecHandlers): copyToClipboard with an empty text starts no clipboard write
\* and no timeout and changes none of the state cells.
C10_CopyOfEmptyTextIsNoOp ==
    [][(lastEvent'.op = "copyToClipboard" /\ Not(lastEvent'.arg.text))
        => UNCHANGED <<view, requests, writes, timers>>]_vars

\* the summary was copied while empty
C10_Witness ==
    /\ Ran("copyToClipboard")
    /\ lastEvent.arg.type = "Summary"
    /\ Not(lastEvent.arg.text)
    /\ copyNotification = Null

\* C11 as stated (SpecHandlers): handleSummarize run while isLoading is true issues
\* no summarizeText call.
C11_HandlerGuardsInFlight ==
    [][(isLoading /\ lastEvent'.op = "handleSummarize")
        => requests' = requests]_vars

\* C12 as stated (Spec): the callback of an earlier timeout, run while the delay of a
\* later copy's timeout has not elapsed, leaves the later copy's notification in place.
C12_EarlierTimeoutSuperseded ==
    [][(/\ lastEvent'.op = "timeout"
        /\ Len(timers) > 1
        /\ timers[Len(timers)] > 0
        /\ copyNotification # Null)
        => copyNotification' = copyNotification]_vars

\* C13 (Spec): isLoading is true exactly when a summarizeText call is pending.
C13_LoadingIffInFlight == isLoading <=> Pending(requests) > 0

\* loading is still true after other events, with the request still pending
C13_Witness ==
    /\ isLoading
    /\ Pending(requests) = 1
    /\ Ran("timeout")

\* C14 (SpecResponsive): with a collaborator that answers, loading always becomes
\* false again; and the step that settles a request removes that one request and
\* writes either the summary (success) or the error (failure), not both.
C14_RequestCompletesOnce ==
    /\ isLoading ~> ~isLoading
    /\ [][Pending(requests') < Pending(requests)
            => /\ Pending(requests') = Pending(requests) - 1
               /\ \/ /\ lastEvent'.op = "resolved"
                     /\ summary' = lastEvent'.arg.result
                     /\ error' = error
                  \/ /\ lastEvent'.op = "rejected"
                     /\ IsMessage(error')
                     /\ summary' = summary]_vars
    /\ [][Pending(requests') >= Pending(requests)
            => (Pending(requests) > 0 => UNCHANGED <<summary, error>>)]_vars

\* a second request has failed after the first succeeded, and loading is false
C14_Witness ==
    /\ Ran("rejected")
    /\ lastEvent.arg.request.summaryBefore = <<"s">>
    /\ lastEvent.arg.message = Undefined
    /\ ~isLoading
    /\ requests = EmptyBag

\* C15 (Spec): whenever isLoading is true the error is null and the summary is ''.
C15_LoadingMeansClean == isLoading => (error = Null /\ summary = <<>>)

\* loading, some time after the request was issued over a shown summary
C15_Witness ==
    /\ isLoading
    /\ Ran("tick")
    /\ \E req \in BagToSet(requests) : req.summaryBefore = <<"s">>
    /\ error = Null /\ summary = <<>>

\* C16 (Spec): in the rendered view the note does not change while a request is
\* pending, and when a request settles the note is still the text that was sent.
C16_NoteIsTheTextSent ==
    /\ \A req \in BagToSet(requests) : req.text = inputText
    /\ (Ran("resolved") \/ Ran("rejected"))
            => lastEvent.arg.request.text = inputText

\* a request for "a" has settled with the note still "a"
C16_Witness ==
    /\ Ran("rejected")
    /\ lastEvent.arg.request.text = <<"a">>
    /\ inputText = <<"a">>
    /\ error = Some("Quota exceeded.")

\* C17 (SpecHandlers): setInputText(text) leaves inputText = text, for any text and
\* from any state, and leaves summary, error, isLoading, apiKeyMissing and
\* copyNotification as they were.
C17_SetInputTextOnlySetsTheNote ==
    [][lastEvent'.op = "setInputText"
        => /\ inputText' = lastEvent'.arg
           /\ UNCHANGED <<summary, error, isLoading, apiKeyMissing, copyNotification>>
           /\ UNCHANGED <<requests, writes, timers>>]_vars

\* a blank note set while loading, with an error shown
C17_Witness ==
    /\ Ran("setInputText")
    /\ inputText = <<" ">>
    /\ isLoading
    /\ error = ValidationError

\* C18 (SpecHandlers): after a failing call the error is the collaborator's message if
\* there is one and it is not '', and the fixed fallback otherwise; the failure ends
\* in the handler, which clears isLoading.
C18_ErrorMessageOrFallback ==
    Ran("rejected") =>
        /\ error = (IF lastEvent.arg.message \in {Undefined, Some("")}
                    THEN FallbackError
                    ELSE lastEvent.arg.message)
        /\ ~isLoading

\* a rejection with an empty message, stored as the fallback
C18_Witness ==
    /\ Ran("rejected")
    /\ lastEvent.arg.message = Some("")
    /\ error = FallbackError

====
